---- MODULE Spec2Model ----
(***************************************************************************)
(* Model of data::PriorityQueue<string, DIRECTION> (src/PriorityQueue.h):  *)
(* a two-level map  numDigits -> priority -> list<T>  with a cached cursor *)
(* (curDigitsBucket_, curPriorityBucket_, curHighest_) to the element that *)
(* top()/pop() return.  T is std::string, as in the example program.       *)
(*                                                                         *)
(* A std::string is a sequence of character codes (naturals); operator<    *)
(* on strings is lexicographic.  A list node is a record [id, val]: val is *)
(* the stored T, id the identity of the node (what a list iterator refers  *)
(* to).  A map iterator is modelled by the key of the entry it refers to.  *)
(***************************************************************************)
EXTENDS Integers, Sequences, FiniteSets, TLC

VARIABLES dir, buckets_, size_, curDigitsBucket_, curPriorityBucket_,
          curHighest_, op, threw, ret, answer, loops, pushLog, removed, held

queue == <<buckets_, size_, curDigitsBucket_, curPriorityBucket_, curHighest_>>
vars == <<dir, buckets_, size_, curDigitsBucket_, curPriorityBucket_,
          curHighest_, op, threw, ret, answer, loops, pushLog, removed, held>>

----------------------------------------------------------------------------
(* Bounds of the model. *)

\* the priority arguments of push are the decimal numerals of
\* FirstPriority..LastPriority: numerals of one and of two digits, among
\* them "9" and "10", which length and lexicographic order rank differently
FirstPriority == 9
LastPriority == 11
\* total number of push calls in a behaviour
MaxPushes == 3

\* the numeral of n as a string of digit characters (digit c as code c)
RECURSIVE Decimal(_)
Decimal(n) ==
  IF n < 10 THEN <<n>> ELSE Append(Decimal(n \div 10), n % 10)

\* the priority arguments of push: non-empty digit strings
Priorities == {Decimal(n) : n \in FirstPriority..LastPriority}

\* the element arguments of push: "5", which is above the two-digit
\* priorities and below the one-digit ones as a string, and "10", which is
\* also a priority
Elements == {<<5>>, <<1, 0>>}

Directions == {"Min", "Max"}

----------------------------------------------------------------------------
(* std::string comparison. *)

\* operator< (const string&, const string&): lexicographic, a proper prefix
\* is smaller
StringLess(a, b) ==
  \E i \in 1..(Len(b)) :
     /\ \A j \in 1..(i - 1) : j <= Len(a) /\ a[j] = b[j]
     /\ \/ i = Len(a) + 1
        \/ i <= Len(a) /\ a[i] < b[i]

\* Min::compare
MinCompare(priority, min) == StringLess(priority, min)

\* Max::compare
MaxCompare(priority, max) == StringLess(max, priority)

\* DIRECTION::compare
Compare(D, priority, extreme) ==
  IF D = "Min" THEN MinCompare(priority, extreme)
  ELSE MaxCompare(priority, extreme)

----------------------------------------------------------------------------
(* Ordered containers.  A map is a function from its keys; key names the   *)
(* key type of the map, which fixes the order of its entries.              *)

\* the iterator value that refers to no entry (end (), or a default
\* constructed iterator)
NoDigitsBucket == 0 - 1
NoPriorityBucket == <<>>
NoNode == 0

UnsignedLess(a, b) == a < b

\* std::less<Key> of map<unsigned int, BUCKET> and of map<string, list<T> >
KeyLess(key, a, b) ==
  IF key = "unsigned" THEN UnsignedLess(a, b) ELSE StringLess(a, b)

\* T::begin () of a map with the given keys
Begin(keys, key, end) ==
  IF keys = {} THEN end
  ELSE CHOOSE k \in keys : \A j \in keys : j = k \/ KeyLess(key, k, j)

\* --T::end () of a map with the given keys
Last(keys, key, end) ==
  IF keys = {} THEN end
  ELSE CHOOSE k \in keys : \A j \in keys : j = k \/ KeyLess(key, j, k)

\* Min::iterator returning --t.end ()
MinIterator_Last(keys, key, end) == Last(keys, key, end)

\* Min::iterator
MinIterator(keys, key, end) == Begin(keys, key, end)

\* Max::iterator returning t.begin ()
MaxIterator_Begin(keys, key, end) == Begin(keys, key, end)

\* Max::iterator
MaxIterator(keys, key, end) == Last(keys, key, end)

\* DIRECTION::iterator
Iterator(D, keys, key, end) ==
  IF D = "Min" THEN MinIterator(keys, key, end)
  ELSE MaxIterator(keys, key, end)

\* map::erase (iterator)
MapErase(m, k) == [j \in (DOMAIN m) \ {k} |-> m[j]]

\* map::insert (make_pair (k, v)) of a key that is absent
MapInsert(m, k, v) == [j \in (DOMAIN m) \cup {k} |-> IF j = k THEN v ELSE m[j]]

\* list::push_front in its place
PushBack_Front(l, n) == <<n>> \o l

\* list::push_back
PushBack(l, n) == Append(l, n)

\* list::erase (iterator)
ListErase(l, id) == SelectSeq(l, LAMBDA n : n.id # id)

----------------------------------------------------------------------------
(* The queue object as a record of its fields. *)

this ==
  [buckets_ |-> buckets_, size_ |-> size_,
   curDigitsBucket_ |-> curDigitsBucket_,
   curPriorityBucket_ |-> curPriorityBucket_,
   curHighest_ |-> curHighest_]

\* PriorityQueue (): empty map, size 0, default constructed iterators
Constructed ==
  [buckets_ |-> <<>>, size_ |-> 0,
   curDigitsBucket_ |-> NoDigitsBucket,
   curPriorityBucket_ |-> NoPriorityBucket,
   curHighest_ |-> NoNode]

\* the cached iterators refer to entries that exist
CursorValid(q) ==
  /\ q.curDigitsBucket_ \in DOMAIN q.buckets_
  /\ q.curPriorityBucket_ \in DOMAIN q.buckets_[q.curDigitsBucket_]
  /\ \E i \in 1..Len(q.buckets_[q.curDigitsBucket_][q.curPriorityBucket_]) :
        q.buckets_[q.curDigitsBucket_][q.curPriorityBucket_][i].id = q.curHighest_

\* the list node curHighest_ refers to
CursorNode(q) ==
  LET l == q.buckets_[q.curDigitsBucket_][q.curPriorityBucket_]
  IN  l[CHOOSE i \in 1..Len(l) : l[i].id = q.curHighest_]

\* *curHighest_: the nodes the read can see; reading through an iterator
\* whose node is gone is undefined and may produce any string
DerefNode(q) ==
  IF CursorValid(q) THEN {CursorNode(q)}
  ELSE {[id |-> NoNode, val |-> v] : v \in Elements \cup Priorities}

Deref(q) == {n.val : n \in DerefNode(q)}

----------------------------------------------------------------------------
(* The operations, as functions of the object.                             *)

\* the test of line 184 without size_ == 0
PushMovesCursor_NoEmptyTest(q, D, priority, cur) ==
  Compare(D, priority, cur)

\* push, lines 184-188: the test that moves the cursor to the new element;
\* cur is the string read by *curHighest_
PushMovesCursor(q, D, priority, cur) ==
  q.size_ = 0 \/ Compare(D, priority, cur)

\* line 187 taking the element just appended, --priorityBucket->second.end ()
PushCursorTarget_Back(l) == l[Len(l)].id

\* push, line 187: priorityBucket->second.begin ()
PushCursorTarget(l) == Head(l).id

\* push (priority, t); id is the identity of the list node push_back makes,
\* cur the string *curHighest_ yields if it is read
push(q, D, priority, t, id, cur) ==
  LET numDigits == Len(priority)
      b1 == IF numDigits \in DOMAIN q.buckets_ THEN q.buckets_
            ELSE MapInsert(q.buckets_, numDigits, <<>>)
      b2 == IF priority \in DOMAIN b1[numDigits] THEN b1
            ELSE [b1 EXCEPT ![numDigits] = MapInsert(@, priority, <<>>)]
      b3 == [b2 EXCEPT ![numDigits][priority] =
                          PushBack(@, [id |-> id, val |-> t])]
  IN  IF PushMovesCursor(q, D, priority, cur)
      THEN [buckets_ |-> b3, size_ |-> q.size_ + 1,
            curDigitsBucket_ |-> numDigits,
            curPriorityBucket_ |-> priority,
            curHighest_ |-> PushCursorTarget(b3[numDigits][priority])]
      ELSE [q EXCEPT !.buckets_ = b3, !.size_ = q.size_ + 1]

\* the empty test with < in place of ==
IsEmpty_Negative(q) == q.size_ < 0

\* pop, line 200, and top, line 227: the empty test
IsEmpty(q) == q.size_ = 0

\* pop returning the last element of the cursor's list
PopReturns_Back(q) ==
  IF CursorValid(q)
  THEN LET l == q.buckets_[q.curDigitsBucket_][q.curPriorityBucket_]
       IN  {l[Len(l)]}
  ELSE DerefNode(q)

\* pop, line 202: T t = *curHighest_
PopReturns(q) == DerefNode(q)

\* pop without lines 204-205: an empty priority bucket is kept
PopErase_KeepsPriorityBucket(q) ==
  LET d == q.curDigitsBucket_
      p == q.curPriorityBucket_
      b0 == q.buckets_
      has == d \in DOMAIN b0 /\ p \in DOMAIN b0[d]
      b1 == IF has THEN [b0 EXCEPT ![d][p] = ListErase(@, q.curHighest_)]
            ELSE b0
      b3 == IF d \in DOMAIN b1 /\ DOMAIN b1[d] = {}
            THEN MapErase(b1, d) ELSE b1
  IN  b3

\* pop without lines 207-208: an empty digits bucket is kept
PopErase_KeepsDigitsBucket(q) ==
  LET d == q.curDigitsBucket_
      p == q.curPriorityBucket_
      b0 == q.buckets_
      has == d \in DOMAIN b0 /\ p \in DOMAIN b0[d]
      b1 == IF has THEN [b0 EXCEPT ![d][p] = ListErase(@, q.curHighest_)]
            ELSE b0
      b2 == IF has /\ b1[d][p] = <<>>
            THEN [b1 EXCEPT ![d] = MapErase(@, p)] ELSE b1
  IN  b2

\* pop, lines 203-208: erase the cursor's element, then the buckets that
\* became empty.  An erase through an iterator that refers to no entry is
\* modelled as leaving the container alone.
PopErase(q) ==
  LET d == q.curDigitsBucket_
      p == q.curPriorityBucket_
      b0 == q.buckets_
      has == d \in DOMAIN b0 /\ p \in DOMAIN b0[d]
      b1 == IF has THEN [b0 EXCEPT ![d][p] = ListErase(@, q.curHighest_)]
            ELSE b0
      b2 == IF has /\ b1[d][p] = <<>>
            THEN [b1 EXCEPT ![d] = MapErase(@, p)] ELSE b1
      b3 == IF d \in DOMAIN b2 /\ DOMAIN b2[d] = {}
            THEN MapErase(b2, d) ELSE b2
  IN  b3

\* line 213 taking begin () of the digits bucket in every direction
Recompute_InnerBegin(b, D) ==
  LET d == Iterator(D, DOMAIN b, "unsigned", NoDigitsBucket)
      p == IF d \in DOMAIN b
           THEN Begin(DOMAIN b[d], "string", NoPriorityBucket)
           ELSE NoPriorityBucket
      h == IF d \in DOMAIN b /\ p \in DOMAIN b[d] /\ b[d][p] # <<>>
           THEN Head(b[d][p]).id ELSE NoNode
  IN  [curDigitsBucket_ |-> d, curPriorityBucket_ |-> p, curHighest_ |-> h]

\* pop, lines 212-214: the cursor recomputed from the ends of the maps
Recompute(b, D) ==
  LET d == Iterator(D, DOMAIN b, "unsigned", NoDigitsBucket)
      p == IF d \in DOMAIN b
           THEN Iterator(D, DOMAIN b[d], "string", NoPriorityBucket)
           ELSE NoPriorityBucket
      h == IF d \in DOMAIN b /\ p \in DOMAIN b[d] /\ b[d][p] # <<>>
           THEN Head(b[d][p]).id ELSE NoNode
  IN  [curDigitsBucket_ |-> d, curPriorityBucket_ |-> p, curHighest_ |-> h]

\* pop without line 209
pop_KeepsSize(q, D) ==
  LET b == PopErase(q)
      n == q.size_
      c == Recompute(b, D)
  IN  IF n # 0
      THEN [buckets_ |-> b, size_ |-> n,
            curDigitsBucket_ |-> c.curDigitsBucket_,
            curPriorityBucket_ |-> c.curPriorityBucket_,
            curHighest_ |-> c.curHighest_]
      ELSE [q EXCEPT !.buckets_ = b, !.size_ = n]

\* pop () past the empty test: the object afterwards
pop(q, D) ==
  LET b == PopErase(q)
      n == q.size_ - 1
      c == Recompute(b, D)
  IN  IF n # 0
      THEN [buckets_ |-> b, size_ |-> n,
            curDigitsBucket_ |-> c.curDigitsBucket_,
            curPriorityBucket_ |-> c.curPriorityBucket_,
            curHighest_ |-> c.curHighest_]
      ELSE [q EXCEPT !.buckets_ = b, !.size_ = n]

\* top refreshing the cursor from the ends of the maps before it returns
top_Recomputes(q, D) ==
  LET c == Recompute(q.buckets_, D)
  IN  [q EXCEPT !.curDigitsBucket_ = c.curDigitsBucket_,
                !.curPriorityBucket_ = c.curPriorityBucket_,
                !.curHighest_ = c.curHighest_]

\* top () past the empty test: the object afterwards
top(q, D) == q

\* empty ()
empty(q) == q.size_ = 0

\* size ()
size(q) == q.size_

\* the inner loop moving one element per pass, the priority bucket erased
\* once its list is empty
RECURSIVE DrainBucket_PerElement(_, _, _, _)
DrainBucket_PerElement(bucket, D, res, n) ==
  IF DOMAIN bucket = {} THEN [res |-> res, inner |-> n]
  ELSE LET curPriorityBucket ==
             Iterator(D, DOMAIN bucket, "string", NoPriorityBucket)
           l == bucket[curPriorityBucket]
       IN  IF Len(l) <= 1
           THEN DrainBucket_PerElement(MapErase(bucket, curPriorityBucket),
                                       D, res \o l, n + 1)
           ELSE DrainBucket_PerElement(
                  [bucket EXCEPT ![curPriorityBucket] = Tail(l)],
                  D, Append(res, Head(l)), n + 1)

\* pop_all, lines 240-244: the inner loop over one digits bucket; res is
\* the list built so far, n the number of times the body has run
RECURSIVE DrainBucket(_, _, _, _)
DrainBucket(bucket, D, res, n) ==
  IF DOMAIN bucket = {} THEN [res |-> res, inner |-> n]
  ELSE LET curPriorityBucket ==
             Iterator(D, DOMAIN bucket, "string", NoPriorityBucket)
       IN  DrainBucket(MapErase(bucket, curPriorityBucket), D,
                       res \o bucket[curPriorityBucket], n + 1)

\* the outer loop as an if: only the extreme digits bucket is drained
DrainBuckets_Once(b, D, res, inner, outer) ==
  IF DOMAIN b = {}
  THEN [res |-> res, buckets_ |-> b, inner |-> inner, outer |-> outer]
  ELSE LET curDigitsBucket ==
             Iterator(D, DOMAIN b, "unsigned", NoDigitsBucket)
           r == DrainBucket(b[curDigitsBucket], D, res, inner)
       IN  [res |-> r.res, buckets_ |-> MapErase(b, curDigitsBucket),
            inner |-> r.inner, outer |-> outer + 1]

\* pop_all, lines 238-246: the outer loop
RECURSIVE DrainBuckets(_, _, _, _, _)
DrainBuckets(b, D, res, inner, outer) ==
  IF DOMAIN b = {}
  THEN [res |-> res, buckets_ |-> b, inner |-> inner, outer |-> outer]
  ELSE LET curDigitsBucket ==
             Iterator(D, DOMAIN b, "unsigned", NoDigitsBucket)
           r == DrainBucket(b[curDigitsBucket], D, res, inner)
       IN  DrainBuckets(MapErase(b, curDigitsBucket), D, r.res, r.inner,
                        outer + 1)

\* pop_all without line 247
pop_all_KeepsSize(q, D) ==
  LET r == DrainBuckets(q.buckets_, D, <<>>, 0, 0)
  IN  [res |-> r.res,
       q |-> [q EXCEPT !.buckets_ = r.buckets_],
       inner |-> r.inner, outer |-> r.outer]

\* pop_all (): the list returned, the object afterwards and the loop counts
pop_all(q, D) ==
  LET r == DrainBuckets(q.buckets_, D, <<>>, 0, 0)
  IN  [res |-> r.res,
       q |-> [q EXCEPT !.buckets_ = r.buckets_, !.size_ = 0],
       inner |-> r.inner, outer |-> r.outer]

----------------------------------------------------------------------------
(* The state machine: one queue object and the calls made on it.           *)
(*   dir      the DIRECTION template argument of the object                *)
(*   op       the member function called last, threw whether it threw      *)
(*   ret      what it returned, as a sequence of list nodes (one node for  *)
(*            pop and top, the whole list for pop_all, none otherwise)     *)
(*   answer   what empty () or size () returned, 0 after the other calls    *)
(*   loops    how often the bodies of the inner and of the outer loop of   *)
(*            pop_all ran in the last call, <<0, 0>> after the other calls *)
(*   pushLog  the arguments of the push calls so far; the node made by the *)
(*            i-th push has id i                                           *)
(*   removed  the number of elements pop and pop_all have removed so far   *)
(*   held     the ids of the nodes pushed and not yet returned by pop or   *)
(*            pop_all                                                      *)

Assign(q) ==
  /\ buckets_' = q.buckets_
  /\ size_' = q.size_
  /\ curDigitsBucket_' = q.curDigitsBucket_
  /\ curPriorityBucket_' = q.curPriorityBucket_
  /\ curHighest_' = q.curHighest_

Init ==
  /\ dir \in Directions
  /\ buckets_ = Constructed.buckets_
  /\ size_ = Constructed.size_
  /\ curDigitsBucket_ = Constructed.curDigitsBucket_
  /\ curPriorityBucket_ = Constructed.curPriorityBucket_
  /\ curHighest_ = Constructed.curHighest_
  /\ op = "ctor"
  /\ threw = FALSE
  /\ ret = <<>>
  /\ answer = 0
  /\ loops = <<0, 0>>
  /\ pushLog = <<>>
  /\ removed = 0
  /\ held = {}

\* the test of line 184 with its operands evaluated unconditionally
PushDerefs_Always(q) == TRUE

\* line 184: whether push evaluates *curHighest_; || evaluates its right
\* operand only when size_ == 0 is false
PushDerefs(q) == q.size_ # 0

\* the strings the test of line 184 can read
PushReads(q) == IF PushDerefs(q) THEN Deref(q) ELSE {<<>>}

Push(priority, t) ==
  /\ Len(pushLog) < MaxPushes
  /\ \E cur \in PushReads(this) :
        Assign(push(this, dir, priority, t, Len(pushLog) + 1, cur))
  /\ op' = "push"
  /\ threw' = FALSE
  /\ ret' = <<>>
  /\ answer' = 0
  /\ loops' = <<0, 0>>
  /\ pushLog' = Append(pushLog, [pri |-> priority, val |-> t])
  /\ held' = held \cup {Len(pushLog) + 1}
  /\ UNCHANGED <<dir, removed>>

Pop ==
  /\ IF IsEmpty(this)
     THEN /\ threw' = TRUE
          /\ ret' = <<>>
          /\ UNCHANGED <<queue, removed, held>>
     ELSE /\ \E t \in PopReturns(this) : ret' = <<t>> /\ held' = held \ {t.id}
          /\ Assign(pop(this, dir))
          /\ threw' = FALSE
          /\ removed' = removed + 1
  /\ op' = "pop"
  /\ answer' = 0
  /\ loops' = <<0, 0>>
  /\ UNCHANGED <<dir, pushLog>>

Top ==
  /\ IF IsEmpty(this)
     THEN /\ threw' = TRUE
          /\ ret' = <<>>
          /\ UNCHANGED queue
     ELSE /\ \E t \in DerefNode(this) : ret' = <<t>>
          /\ Assign(top(this, dir))
          /\ threw' = FALSE
  /\ op' = "top"
  /\ answer' = 0
  /\ loops' = <<0, 0>>
  /\ UNCHANGED <<dir, pushLog, removed, held>>

PopAll ==
  /\ LET r == pop_all(this, dir)
     IN  /\ Assign(r.q)
         /\ ret' = r.res
         /\ loops' = <<r.inner, r.outer>>
         /\ removed' = removed + Len(r.res)
         /\ held' = held \ {r.res[i].id : i \in 1..Len(r.res)}
  /\ op' = "pop_all"
  /\ threw' = FALSE
  /\ answer' = 0
  /\ UNCHANGED <<dir, pushLog>>

Empty ==
  /\ answer' = empty(this)
  /\ op' = "empty"
  /\ threw' = FALSE
  /\ ret' = <<>>
  /\ loops' = <<0, 0>>
  /\ UNCHANGED <<dir, queue, pushLog, removed, held>>

Size ==
  /\ answer' = size(this)
  /\ op' = "size"
  /\ threw' = FALSE
  /\ ret' = <<>>
  /\ loops' = <<0, 0>>
  /\ UNCHANGED <<dir, queue, pushLog, removed, held>>

Next ==
  \/ \E priority \in Priorities, t \in Elements : Push(priority, t)
  \/ Pop
  \/ Top
  \/ PopAll
  \/ Empty
  \/ Size

Spec == Init /\ [][Next]_vars

----------------------------------------------------------------------------
(* Vocabulary of the properties.                                           *)

\* the order of priorities: by length first, lexicographic among equal
\* lengths
PriorityLess(a, b) ==
  \/ Len(a) < Len(b)
  \/ Len(a) = Len(b) /\ StringLess(a, b)

\* a comes no later than b in a queue of direction D
NotAfter(D, a, b) ==
  \/ a = b
  \/ IF D = "Min" THEN PriorityLess(a, b) ELSE PriorityLess(b, a)

\* the priority the node with this id was pushed with
PriorityOf(id) == pushLog[id].pri

\* the number of elements stored across all priority buckets
RECURSIVE SumLen(_, _)
SumLen(bucket, keys) ==
  IF keys = {} THEN 0
  ELSE LET k == CHOOSE k \in keys : TRUE
       IN  Len(bucket[k]) + SumLen(bucket, keys \ {k})

RECURSIVE StoredCount(_, _)
StoredCount(b, keys) ==
  IF keys = {} THEN 0
  ELSE LET k == CHOOSE k \in keys : TRUE
       IN  SumLen(b[k], DOMAIN b[k]) + StoredCount(b, keys \ {k})

\* the held node that should be served next: of the extreme priority, and
\* the oldest of those
IsNextToServe(id) ==
  /\ id \in held
  /\ \A o \in held :
        /\ NotAfter(dir, PriorityOf(id), PriorityOf(o))
        /\ PriorityOf(o) = PriorityOf(id) => id <= o

----------------------------------------------------------------------------
\* C1: of two pop() calls made one right after the other, the first returns
\* an element whose priority is <= that of the second in a Min queue and >=
\* in a Max queue (priorities ordered by length, then lexicographically).
C1_PopOrdering ==
  [][(op = "pop" /\ ~threw /\ op' = "pop" /\ ~threw')
       => NotAfter(dir, PriorityOf(ret[1].id), PriorityOf(ret'[1].id))]_vars

\* C2: whenever size() > 0 the cursor designates the oldest held element of
\* the globally extreme priority.
C2_CursorInvariant ==
  size_ > 0 => CursorValid(this) /\ IsNextToServe(curHighest_)

----------------------------------------------------------------------------
(* Queues built by push calls alone, for the properties that compare two   *)
(* queues or two ways of draining one.                                     *)

\* the objects a fresh queue of direction D can be after the pushes of log
\* (entry i makes node i)
RECURSIVE Pushed(_, _)
Pushed(log, D) ==
  IF log = <<>> THEN {Constructed}
  ELSE LET n == Len(log)
       IN  UNION {{push(q, D, log[n].pri, log[n].val, n, cur) :
                     cur \in PushReads(q)} :
                  q \in Pushed(SubSeq(log, 1, n - 1), D)}

\* the lists pop_all () can return for such a queue
DrainOf(log, D) == {pop_all(q, D).res : q \in Pushed(log, D)}

\* while (!empty ()) pop (): the list of the nodes returned
RECURSIVE PopLoop(_, _)
PopLoop(q, D) ==
  IF IsEmpty(q) THEN <<>>
  ELSE LET t == CHOOSE t \in PopReturns(q) : TRUE
       IN  <<t>> \o PopLoop(pop(q, D), D)

Reverse(l) == [i \in 1..Len(l) |-> l[Len(l) + 1 - i]]

Values(l) == [i \in 1..Len(l) |-> l[i].val]

Ids(l) == {l[i].id : i \in 1..Len(l)}

\* the pushes of the example program, lines 37-41: characters as codes,
\* digit c as c, letter 'a' as 10, 'b' as 11, 'c' as 12
ExampleLog ==
  << [pri |-> <<3, 0>>, val |-> <<3>>],
     [pri |-> <<2, 0>>, val |-> <<2, 10>>],
     [pri |-> <<6, 0, 0>>, val |-> <<6, 12>>],
     [pri |-> <<1>>, val |-> <<1>>],
     [pri |-> <<2, 0>>, val |-> <<2, 11>>] >>

ExampleMinDrain == << <<1>>, <<2, 10>>, <<2, 11>>, <<3>>, <<6, 12>> >>

ExampleMaxDrain == << <<6, 12>>, <<3>>, <<2, 10>>, <<2, 11>>, <<1>> >>

\* the example pushes drain in a Min queue to "1", "2a", "2b", "3", "6c"
ExampleMinHolds ==
  \A r \in DrainOf(ExampleLog, "Min") : Values(r) = ExampleMinDrain

----------------------------------------------------------------------------
\* C3: pop_all() returns exactly the elements held, each once, sorted by
\* the priority they were pushed with under the direction (length first,
\* then lexicographic), elements of equal priority in push order; and the
\* example pushes drain in a Min queue to "1","2a","2b","3","6c".
C3_PopAllRoundTrip ==
  [][op' = "pop_all" =>
       /\ Ids(ret') = held
       /\ Len(ret') = Cardinality(held)
       /\ \A i \in 1..Len(ret') : ret'[i].val = pushLog[ret'[i].id].val
       /\ \A i, j \in 1..Len(ret') :
             i < j =>
               /\ NotAfter(dir, PriorityOf(ret'[i].id), PriorityOf(ret'[j].id))
               /\ PriorityOf(ret'[i].id) = PriorityOf(ret'[j].id)
                    => ret'[i].id < ret'[j].id
       /\ ExampleMinHolds
    ]_vars

\* a pop_all() has returned three elements of two priorities, two of them
\* of equal priority
C3_Witness ==
  /\ op = "pop_all"
  /\ Len(ret) = 3
  /\ \E i, j \in 1..3 :
        i # j /\ PriorityOf(ret[i].id) = PriorityOf(ret[j].id)
  /\ \E i, j \in 1..3 :
        Len(PriorityOf(ret[i].id)) # Len(PriorityOf(ret[j].id))

\* C4: in every reachable state pop_all() would return the same sequence as
\* calling pop() until the queue is empty.
C4_PopAllEqualsPopLoop ==
  Values(pop_all(this, dir).res) = Values(PopLoop(this, dir))

\* C5: of two held elements pushed with the same priority string, the one
\* pushed first is returned by pop() first and stands first in the result
\* of pop_all(), in both directions.
C5_FifoTieBreak ==
  [][/\ (op' = "pop" /\ ~threw')
          => \A a \in held :
                PriorityOf(a) = PriorityOf(ret'[1].id) => ret'[1].id <= a
     /\ op' = "pop_all"
          => \A i, j \in 1..Len(ret') :
                (/\ PriorityOf(ret'[i].id) = PriorityOf(ret'[j].id)
                 /\ ret'[i].id < ret'[j].id) => i < j
    ]_vars

\* a pop() has returned the older of two elements of one priority while the
\* younger one is still held
C5_Witness ==
  /\ op = "pop"
  /\ ~threw
  /\ \E b \in held :
        PriorityOf(b) = PriorityOf(ret[1].id) /\ ret[1].id < b

\* C6: size() is the number of elements pushed minus the number removed by
\* pop() and pop_all(), which is the number of elements stored in the
\* priority buckets; empty() is true exactly when size() is 0.
C6_SizeAccounting ==
  /\ size(this) = Len(pushLog) - removed
  /\ size(this) = StoredCount(buckets_, DOMAIN buckets_)
  /\ size(this) = Cardinality(held)
  /\ empty(this) <=> size(this) = 0

\* elements have been pushed, some removed and some are still stored
C6_Witness ==
  /\ Len(pushLog) = MaxPushes
  /\ removed > 0
  /\ size_ > 0

\* C7: the value a successful top() returns is the value an immediately
\* following pop() returns, and that pop() lowers size() by exactly one.
C7_TopPopAgreement ==
  [][(op = "top" /\ ~threw /\ op' = "pop")
       => /\ ~threw'
          /\ ret' = ret
          /\ size_' = size_ - 1
    ]_vars

\* a pop() has returned an element and left others in the queue
C7_Witness ==
  /\ op = "pop"
  /\ ~threw
  /\ Len(ret) = 1
  /\ size_ > 0

\* C8: with size() == 0, pop() and top() throw and leave the queue as it
\* was: size() 0, empty() true, no bucket.
C8_EmptyQueueError ==
  [][(size_ = 0 /\ op' \in {"pop", "top"})
       => /\ threw'
          /\ UNCHANGED queue
          /\ size(this') = 0
          /\ empty(this')
          /\ DOMAIN buckets_' = {}
    ]_vars

\* pop() or top() has thrown on a queue that had held elements before
C8_Witness ==
  /\ op \in {"pop", "top"}
  /\ threw
  /\ removed > 0

\* C9: after pop_all() returns size() is 0, empty() is true and there is no
\* digits bucket; on a queue that is already empty it returns an empty list
\* and does not throw.
C9_PopAllEmpties ==
  [][op' = "pop_all" =>
       /\ ~threw'
       /\ size(this') = 0
       /\ empty(this')
       /\ DOMAIN buckets_' = {}
       /\ size_ = 0 => ret' = <<>>
    ]_vars

\* a pop_all() has drained a queue that had two digits buckets
C9_Witness ==
  /\ op = "pop_all"
  /\ \E i, j \in 1..Len(ret) :
        Len(PriorityOf(ret[i].id)) # Len(PriorityOf(ret[j].id))
  /\ size_ = 0

\* the other direction
Other(D) == IF D = "Min" THEN "Max" ELSE "Min"

\* the place of the node with this id in a list
Position(l, id) == CHOOSE i \in 1..Len(l) : l[i].id = id

\* the queue was drained by pop_all() after pushes alone
DrainedAfterPushesOnly == op = "pop_all" /\ Len(ret) = Len(pushLog)

\* C10: the same pushes drained from a queue of the other direction give
\* the reversed sequence.
C10_DescendingIsReverse ==
  DrainedAfterPushesOnly
    => \A r \in DrainOf(pushLog, Other(dir)) :
          Values(ret) = Reverse(Values(r))

\* C10 as amended: the same pushes drained from a queue of the other
\* direction give the same elements, two elements of different priorities
\* in the opposite order and two elements of equal priority in the same
\* (push) order; the example pushes drain in a Max queue to
\* "6c","3","2a","2b","1".
C10_DescendingReversesPriorities ==
  /\ DrainedAfterPushesOnly
       => \A r \in DrainOf(pushLog, Other(dir)) :
             /\ Len(r) = Len(ret)
             /\ Ids(r) = Ids(ret)
             /\ Values(r) = [i \in 1..Len(r) |-> pushLog[r[i].id].val]
             /\ \A i, j \in 1..Len(ret) :
                   i < j =>
                     IF PriorityOf(ret[i].id) = PriorityOf(ret[j].id)
                     THEN Position(r, ret[i].id) < Position(r, ret[j].id)
                     ELSE Position(r, ret[i].id) > Position(r, ret[j].id)
  /\ \A r \in DrainOf(ExampleLog, "Max") : Values(r) = ExampleMaxDrain

\* a Max queue has been drained after three pushes, two of them of one
\* priority with different elements, one of another priority
C10_Witness ==
  /\ DrainedAfterPushesOnly
  /\ dir = "Max"
  /\ Len(ret) = 3
  /\ \E i, j \in 1..3 :
        /\ PriorityOf(ret[i].id) = PriorityOf(ret[j].id)
        /\ ret[i].val # ret[j].val
  /\ \E i, j \in 1..3 : PriorityOf(ret[i].id) # PriorityOf(ret[j].id)

----------------------------------------------------------------------------
\* the two logical states of the queue
EmptyState(q) == q.size_ = 0 /\ DOMAIN q.buckets_ = {}

NonEmptyState(q) == q.size_ > 0 /\ CursorValid(q)

\* C11: every reachable state is Empty (size() == 0, no bucket) or NonEmpty
\* (size() > 0, the cursor designates a stored element); only pop() of the
\* last element and pop_all() lead from NonEmpty to Empty, only push() leads
\* from Empty to NonEmpty, and top(), empty(), size() and a pop() or top()
\* that throws leave the queue in the state it was in.
C11_TwoStateMachine ==
  [][/\ EmptyState(this) \/ NonEmptyState(this)
     /\ EmptyState(this') \/ NonEmptyState(this')
     /\ (NonEmptyState(this) /\ EmptyState(this'))
          => \/ op' = "pop" /\ ~threw' /\ size_ = 1
             \/ op' = "pop_all"
     /\ (EmptyState(this) /\ NonEmptyState(this')) => op' = "push"
     /\ (op' \in {"top", "empty", "size"} \/ threw')
          => /\ EmptyState(this') <=> EmptyState(this)
             /\ NonEmptyState(this') <=> NonEmptyState(this)
    ]_vars

\* pop() has removed the last element of a queue and left it Empty
C11_Witness ==
  /\ op = "pop"
  /\ ~threw
  /\ Len(ret) = 1
  /\ EmptyState(this)

\* C12: a top() that succeeds changes nothing in the queue (buckets, element
\* sequences, size, cursor), and it returns the cursor's element, so a
\* second top() right after it returns the same element.
C12_TopReadOnly ==
  [][(op' = "top" /\ ~threw')
       => /\ UNCHANGED queue
          /\ ret' = <<CursorNode(this)>>
          /\ (op = "top" /\ ~threw) => ret' = ret
    ]_vars

\* top() has returned an element that is not the one the ends of the maps
\* designate, on a queue of several elements
C12_Witness ==
  /\ op = "top"
  /\ ~threw
  /\ size_ >= 2
  /\ Recompute(buckets_, dir).curHighest_ # curHighest_

\* a is strictly more extreme than b in a queue of direction D
StrictlyBefore(D, a, b) == a # b /\ NotAfter(D, a, b)

\* the arguments of the last push
LastPushed == pushLog[Len(pushLog)]

\* C13: after a push onto a non-empty queue, top() is the new element if
\* and only if its priority is strictly more extreme (length, then
\* lexicographic order, under the direction) than the priority of the
\* element top() returned before; otherwise top() is the element it was.
C13_PushCursorRule ==
  [][(op' = "push" /\ size_ > 0)
       => IF StrictlyBefore(dir, LastPushed'.pri, PriorityOf(curHighest_))
          THEN curHighest_' = Len(pushLog')
          ELSE curHighest_' = curHighest_
    ]_vars

\* C14: a push whose priority string equals the priority of the element
\* top() returns leaves top() returning that same, older element, whatever
\* the two elements are and in both directions.
C14_EqualPriorityKeepsCursor ==
  [][(op' = "push" /\ size_ > 0
        /\ LastPushed'.pri = PriorityOf(curHighest_))
       => /\ curHighest_' = curHighest_
          /\ CursorValid(this')
          /\ CursorNode(this') = CursorNode(this)
    ]_vars

\* a push of the cursor's priority for which the test of line 184 held (the
\* cursor was assigned) has left the older element at the cursor
C14_Witness ==
  /\ op = "push"
  /\ size_ >= 2
  /\ curHighest_ # Len(pushLog)
  /\ LastPushed.pri = PriorityOf(curHighest_)
  /\ Compare(dir, LastPushed.pri, CursorNode(this).val)

\* C15: right after a pop() that succeeds and leaves size() > 0, the cursor
\* designates the first element of the extreme priority bucket of the
\* extreme digits bucket (smallest keys for Min, largest for Max), which is
\* the oldest held element of the globally extreme priority, whatever the
\* cursor designated before.
C15_PopRecomputesCursor ==
  (op = "pop" /\ ~threw /\ size_ > 0)
    => /\ curDigitsBucket_ \in DOMAIN buckets_
       /\ \A d \in DOMAIN buckets_ :
             IF dir = "Min" THEN curDigitsBucket_ <= d
             ELSE curDigitsBucket_ >= d
       /\ curPriorityBucket_ \in DOMAIN buckets_[curDigitsBucket_]
       /\ \A p \in DOMAIN buckets_[curDigitsBucket_] :
             NotAfter(dir, curPriorityBucket_, p)
       /\ buckets_[curDigitsBucket_][curPriorityBucket_] # <<>>
       /\ curHighest_ =
            Head(buckets_[curDigitsBucket_][curPriorityBucket_]).id
       /\ IsNextToServe(curHighest_)

\* a pop() has returned an element that was not of the extreme priority
\* (the cursor was elsewhere) and has left elements in the queue
C15_Witness ==
  /\ op = "pop"
  /\ ~threw
  /\ size_ > 0
  /\ Len(ret) = 1
  /\ \E h \in held :
        StrictlyBefore(dir, PriorityOf(h), PriorityOf(ret[1].id))

\* C16: between operations every digits bucket present holds at least one
\* priority bucket and every priority bucket present holds at least one
\* element; a bucket exists only if an element of that digit count, or of
\* that exact priority, is in the queue.
C16_NoEmptyBuckets ==
  \A d \in DOMAIN buckets_ :
     /\ DOMAIN buckets_[d] # {}
     /\ \E h \in held : Len(PriorityOf(h)) = d
     /\ \A p \in DOMAIN buckets_[d] :
           /\ buckets_[d][p] # <<>>
           /\ Len(p) = d
           /\ \E h \in held : PriorityOf(h) = p /\ h \in Ids(buckets_[d][p])

\* an element has been removed whose digits bucket is gone, while elements
\* of another digit count are still stored
C16_Witness ==
  /\ size_ > 0
  /\ \E i \in 1..Len(pushLog) :
        i \notin held /\ Len(pushLog[i].pri) \notin DOMAIN buckets_

\* C17: whenever size() > 0 the three cached iterators designate a digits
\* bucket in buckets_, a priority bucket in it and an element in that one;
\* and no call reads them while size() == 0, where pop() of the last
\* element and pop_all() have left them stale: push reads *curHighest_ only
\* past size_ == 0, pop and top only when they do not throw.
\* (A node never moves between lists, so a cursor whose node is in the
\* bucket of its keys refers to the map entries it was taken from.)
C17_CursorNeverDangling ==
  [][/\ size_ > 0 => CursorValid(this)
     /\ size_' > 0 => CursorValid(this')
     /\ (\/ op' = "push" /\ PushDerefs(this)
         \/ op' \in {"pop", "top"} /\ ~threw')
          => size_ # 0 /\ CursorValid(this)
    ]_vars

\* pop() or top() has thrown on a queue whose cached iterators are stale
C17_Witness ==
  /\ op \in {"pop", "top"}
  /\ threw
  /\ size_ = 0
  /\ curHighest_ # NoNode
  /\ ~CursorValid(this)

\* the number of priority buckets in all digits buckets
PriorityBucketCount(b) ==
  Cardinality({dp \in (DOMAIN b) \X Priorities : dp[2] \in DOMAIN b[dp[1]]})

\* C18: pop_all() terminates, and the body of its inner loop (one splice,
\* one erase) runs once per priority bucket present at the call, the body
\* of its outer loop once per digits bucket present, however many elements
\* the buckets hold.
C18_PopAllLoopCounts ==
  [][op' = "pop_all"
       => /\ loops'[1] = PriorityBucketCount(buckets_)
          /\ loops'[2] = Cardinality(DOMAIN buckets_)
          /\ Len(ret') = size_
    ]_vars

\* pop_all() has drained two digits buckets holding more elements than
\* priority buckets
C18_Witness ==
  /\ op = "pop_all"
  /\ loops[2] = 2
  /\ loops[1] < Len(ret)

\* C19: a push made while size() == 0 (on a fresh queue, or one emptied by
\* pop() or pop_all(), whatever the cached iterators still hold) leaves
\* size() == 1, one digits bucket keyed by the priority's length holding one
\* priority bucket holding exactly the pushed element, and top() returning
\* that element.
C19_PushOntoEmpty ==
  [][(size_ = 0 /\ op' = "push")
       => LET p == LastPushed'.pri
              n == [id |-> Len(pushLog'), val |-> LastPushed'.val]
          IN  /\ size_' = 1
              /\ DOMAIN buckets_' = {Len(p)}
              /\ DOMAIN buckets_'[Len(p)] = {p}
              /\ buckets_'[Len(p)][p] = <<n>>
              /\ CursorValid(this')
              /\ DerefNode(this') = {n}
    ]_vars

\* an element has been pushed onto a queue that had been emptied, whose
\* cached iterators were stale
C19_Witness ==
  /\ op = "push"
  /\ size_ = 1
  /\ removed >= 1
  /\ curHighest_ = Len(pushLog)

\* while (!q.empty ()) q.pop (), run for at most fuel passes: the nodes
\* returned, the object afterwards, the number of pop calls, whether one of
\* them threw and whether the loop ended
RECURSIVE DrainByPop(_, _, _)
DrainByPop(q, D, fuel) ==
  IF empty(q)
  THEN [rets |-> <<>>, q |-> q, calls |-> 0, threw |-> FALSE, ended |-> TRUE]
  ELSE IF fuel = 0
  THEN [rets |-> <<>>, q |-> q, calls |-> 0, threw |-> FALSE, ended |-> FALSE]
  ELSE IF IsEmpty(q)
  THEN [rets |-> <<>>, q |-> q, calls |-> 1, threw |-> TRUE, ended |-> TRUE]
  ELSE LET t == CHOOSE t \in PopReturns(q) : TRUE
           r == DrainByPop(pop(q, D), D, fuel - 1)
       IN  [r EXCEPT !.rets = <<t>> \o r.rets, !.calls = r.calls + 1]

\* C20: from a state holding n elements the loop while (!empty ()) pop ()
\* ends after exactly n pop() calls, none of which throws; the n values
\* returned are the elements held, each once; and a further pop() throws.
C20_DrainByPop ==
  LET r == DrainByPop(this, dir, MaxPushes + 1)
  IN  /\ r.ended
      /\ ~r.threw
      /\ r.calls = size_
      /\ r.calls = Cardinality(held)
      /\ Len(r.rets) = r.calls
      /\ Ids(r.rets) = held
      /\ \A i \in 1..Len(r.rets) : r.rets[i].val = pushLog[r.rets[i].id].val
      /\ EmptyState(r.q)
      /\ IsEmpty(r.q)

\* a queue of several elements whose cursor is not on the element the ends
\* of the maps designate, drained by the loop in as many calls
C20_Witness ==
  /\ size_ >= 2
  /\ Recompute(buckets_, dir).curHighest_ # curHighest_
  /\ DrainByPop(this, dir, MaxPushes + 1).calls = size_
  /\ Len(DrainByPop(this, dir, MaxPushes + 1).rets) >= 2

====
